---- MODULE Spec2Model ----
(***************************************************************************)
(* Model of querust's read-side buffer, src/src/internal/buffer.rs.        *)
(*                                                                         *)
(* A Buffer owns a fixed slice of possibly uninitialized bytes and three   *)
(* usize indices: pos, end and initialized.  Every public method of the    *)
(* impl block is one action below, translated statement by statement.      *)
(*                                                                         *)
(* usize values.  A usize is written here as an integer v of small         *)
(* magnitude, read in two's complement: v >= 0 is the value v, v < 0 is    *)
(* the value 2^64 + v (so -1 is usize::MAX).  On such values wrapping      *)
(* addition and subtraction are the integer + and -, and the unsigned      *)
(* order and the overflow tests are ULt, AddOverflows and SubOverflows.    *)
(* The guards keep every value within MaxPos of 0 or of 2^64, so the       *)
(* representation is exact.                                                *)
(*                                                                         *)
(* Arithmetic overflow.  `a + b` and `a - b` on usize panic when the crate *)
(* is built with overflow checks (the dev and test profiles) and wrap      *)
(* otherwise (the release profile).  overflow_checks is the build's        *)
(* choice, made once in Init.                                              *)
(*                                                                         *)
(* A panic leaves the Buffer as it was (every panic site of the impl       *)
(* comes before the method's first assignment) and ends the run.           *)
(***************************************************************************)
EXTENDS Integers, Sequences, FiniteSets, TLC

\* ------------------------------------------------------------------ bounds
\* Largest capacity passed to Buffer::new.
MaxCap == 2
\* Small amounts passed to the cursor methods are 0..MaxAmount.
MaxAmount == 3
\* Every usize of the model stays within MaxPos of 0 or of 2^64.
MaxPos == 4
\* `end` is a counter that read_some only ever increases; runs stop growing
\* it at MaxEnd.
MaxEnd == 4

\* ------------------------------------------------------------ usize values
\* The marker of a byte that was never written (MaybeUninit<u8>).
Uninit == 0

\* The byte values a source writes.  No method inspects a byte, so two
\* values are enough to tell a byte from the one it replaced.
Bytes == {1, 2}

\* usize::MAX in the two's complement reading.
USIZE_MAX == 0 - 1

\* a < b as unsigned machine words.
ULt(a, b) == IF (a >= 0) = (b >= 0) THEN a < b ELSE a >= 0

ULe(a, b) == a = b \/ ULt(a, b)

\* a + b does not fit a usize.
AddOverflows(a, b) ==
    IF a >= 0 /\ b >= 0 THEN FALSE
    ELSE IF a < 0 /\ b < 0 THEN TRUE
    ELSE a + b >= 0

\* a - b is below zero.
SubOverflows(a, b) == ULt(a, b)

\* min without the comparison: the first argument always wins.
min_first(a, b) == a

\* std::cmp::min and std::cmp::max on usize.
min(a, b) == IF ULt(b, a) THEN b ELSE a

\* max without the comparison: the first argument always wins.
max_first(a, b) == a

max(a, b) == IF ULt(a, b) THEN b ELSE a

\* A wrapping subtraction in place of the saturating one.
saturating_sub_wrapping(a, b) == a - b

\* usize::saturating_sub.
saturating_sub(a, b) == IF ULt(a, b) THEN 0 ELSE a - b

\* The values the model lets an index take.
InRange(v) == v >= 0 - MaxPos /\ v <= MaxPos

\* The amounts the cursor methods are called with: small ones and usize::MAX.
Amounts == (0..MaxAmount) \cup {USIZE_MAX}

VARIABLES
    buf,              \* Buffer.buf: the bytes, Uninit where never written
    pos,              \* Buffer.pos
    end,              \* Buffer.end
    initialized,      \* Buffer.initialized
    overflow_checks,  \* TRUE: arithmetic overflow panics; FALSE: it wraps
    written,          \* ghost: the offsets some load has written
    last              \* ghost: the last call, its result and the state before it

vars == <<buf, pos, end, initialized, overflow_checks, written, last>>

\* Buffer::len.
len == Len(buf)

\* The record of a call: the method, its amount, the result (tag and count),
\* pos/end/initialized before the call, the slice handed back by buffer(),
\* the slices passed to consume's closure in order, what the source's read
\* did ("none": not invoked, "err", "zero", "some"), the bytes it wrote, and
\* the number of times it was invoked.  For a failed load, err is the error
\* the source's read returned and val the error the method returned.
Call(op, arg, tag, val, out, fcalls, src, data, reads) ==
    [op |-> op, arg |-> arg, tag |-> tag, val |-> val,
     pos |-> pos, end |-> end, initialized |-> initialized,
     out |-> out, fcalls |-> fcalls, src |-> src, data |-> data, reads |-> reads,
     err |-> 0]

\* The result of a method that touches no source and calls no closure.
Plain(op, arg, tag) == Call(op, arg, tag, 0, <<>>, <<>>, "none", <<>>, 0)

\* The method panicked: nothing was assigned.
Panics(op, arg) ==
    /\ last' = Plain(op, arg, "Panic")
    /\ UNCHANGED <<buf, pos, end, initialized, overflow_checks, written>>

\* No method runs after a panic.
Running == last.tag # "Panic"

\* &self.buf[from..to] is in bounds: from <= to <= len, else the index panics.
SliceInBounds(from, to) == ULe(from, to) /\ ULe(to, len)

\* The bytes of buf[from..to], offsets from 0.
Slice(from, to) == SubSeq(buf, from + 1, to)

\* What a read of the slice s can observe: a written byte reads as itself,
\* a byte never written reads as any value.
Observed(s) ==
    {[i \in 1..Len(s) |-> IF s[i] = Uninit THEN c[i] ELSE s[i]] :
        c \in [1..Len(s) -> Bytes]}

\* Buffer::new(capacity).
new(capacity) ==
    /\ buf = [i \in 1..capacity |-> Uninit]
    /\ pos = 0
    /\ end = 0
    /\ initialized = 0

Init ==
    /\ \E capacity \in 0..MaxCap : new(capacity)
    /\ overflow_checks \in BOOLEAN
    /\ written = {}
    /\ last = [op |-> "new", arg |-> 0, tag |-> "Unit", val |-> 0,
               pos |-> 0, end |-> 0, initialized |-> 0,
               out |-> <<>>, fcalls |-> <<>>, src |-> "none", data |-> <<>>,
               reads |-> 0, err |-> 0]

\* Buffer::buffer: the slice [pos, end) of the bytes, assumed initialized.
buffer ==
    /\ Running
    /\ \/ /\ ~SliceInBounds(pos, end)
          /\ Panics("buffer", 0)
       \/ /\ SliceInBounds(pos, end)
          /\ \E s \in Observed(Slice(pos, end)) :
                last' = Call("buffer", 0, "Slice", 0, s, <<>>, "none", <<>>, 0)
          /\ UNCHANGED <<buf, pos, end, initialized, overflow_checks, written>>

\* discard_buffer clearing initialized along with the cursor.
discard_buffer_clears_initialized ==
    /\ Running
    /\ pos' = 0
    /\ end' = 0
    /\ initialized' = 0
    /\ last' = Plain("discard_buffer", 0, "Unit")
    /\ UNCHANGED <<buf, overflow_checks, written>>

\* discard_buffer resetting the cursor only.
discard_buffer_keeps_end ==
    /\ Running
    /\ pos' = 0
    /\ last' = Plain("discard_buffer", 0, "Unit")
    /\ UNCHANGED <<buf, end, initialized, overflow_checks, written>>

\* Buffer::discard_buffer.
discard_buffer ==
    /\ Running
    /\ pos' = 0
    /\ end' = 0
    /\ last' = Plain("discard_buffer", 0, "Unit")
    /\ UNCHANGED <<buf, initialized, overflow_checks, written>>

\* Buffer::reposition(amount).
reposition(amount) ==
    /\ Running
    /\ \/ /\ AddOverflows(pos, amount) /\ overflow_checks
          /\ Panics("reposition", amount)
       \/ /\ ~(AddOverflows(pos, amount) /\ overflow_checks)
          /\ pos' = min(pos + amount, end)
          /\ last' = Plain("reposition", amount, "Unit")
          /\ UNCHANGED <<buf, end, initialized, overflow_checks, written>>

\* Buffer::try_reposition(amount).
try_reposition(amount) ==
    /\ Running
    /\ \/ /\ AddOverflows(pos, amount) /\ overflow_checks
          /\ Panics("try_reposition", amount)
       \/ /\ ~(AddOverflows(pos, amount) /\ overflow_checks)
          /\ IF ULt(end, pos + amount)
             THEN /\ InRange(pos + amount)
                  /\ pos' = pos + amount
                  /\ last' = Plain("try_reposition", amount, "Some")
             ELSE /\ pos' = pos
                  /\ last' = Plain("try_reposition", amount, "None")
          /\ UNCHANGED <<buf, end, initialized, overflow_checks, written>>

\* Buffer::unposition(amount).
unposition(amount) ==
    /\ Running
    /\ InRange(saturating_sub(pos, amount))
    /\ pos' = saturating_sub(pos, amount)
    /\ last' = Plain("unposition", amount, "Unit")
    /\ UNCHANGED <<buf, end, initialized, overflow_checks, written>>

\* Buffer::try_unposition(amount).
try_unposition(amount) ==
    /\ Running
    /\ \/ /\ SubOverflows(pos, amount) /\ overflow_checks
          /\ Panics("try_unposition", amount)
       \/ /\ ~(SubOverflows(pos, amount) /\ overflow_checks)
          /\ IF ULt(0, pos - amount)
             THEN /\ InRange(pos - amount)
                  /\ pos' = pos - amount
                  /\ last' = Plain("try_unposition", amount, "Some")
             ELSE /\ pos' = pos
                  /\ last' = Plain("try_unposition", amount, "None")
          /\ UNCHANGED <<buf, end, initialized, overflow_checks, written>>

\* Buffer::consume(amount, f).
consume(amount) ==
    /\ Running
    /\ \/ /\ ~SliceInBounds(pos, end)
          /\ Panics("consume", amount)
       \/ /\ SliceInBounds(pos, end)
          /\ IF ULe(amount, end - pos)
             THEN /\ \E s \in Observed(Slice(pos, pos + amount)) :
                        last' = Call("consume", amount, "Some", 0, <<>>, <<s>>, "none", <<>>, 0)
                  /\ pos' = pos + amount
             ELSE /\ last' = Plain("consume", amount, "None")
                  /\ pos' = pos
          /\ UNCHANGED <<buf, end, initialized, overflow_checks, written>>

\* The std::io::Error values a source's read fails with.
Errors == {1, 2}

\* What reader.read(dst) can do with a destination of dstlen bytes: fail
\* with an error, or write k <= dstlen bytes at the start of the destination
\* and return k.
ReadOutcomes(dstlen) ==
    {[ok |-> FALSE, err |-> e, data |-> <<>>] : e \in Errors}
    \cup {[ok |-> TRUE, err |-> 0, data |-> d] :
               d \in UNION {[1..k -> Bytes] : k \in 0..dstlen}}

\* The contract of std::io::Read::read: a read that succeeds wrote no more
\* bytes than the destination holds.
ReadContract(r, dstlen) == r.ok => Len(r.data) <= dstlen

\* The `?` replaced by a fixed error: the source's own error is lost.
Propagate_fixed(e) == 1

\* `reader.read(buffer)?`: the source's error is returned as it is.
Propagate(e) == e

\* The record of a load whose read failed with e.
Failed(op, e) ==
    [Call(op, 0, "Err", Propagate(e), <<>>, <<>>, "err", <<>>, 1) EXCEPT !.err = e]

\* buf after the source wrote data at offset at.
Store(at, data) ==
    [i \in 1..len |-> IF i > at /\ i <= at + Len(data) THEN data[i - at] ELSE buf[i]]

\* The `bytes == 0` test left out: a zero-byte read is committed like any other.
SourceExhausted_never(bytes) == FALSE

\* `if bytes == 0 { return Ok(0); }` of read_some and fill_buf.
SourceExhausted(bytes) == bytes = 0

\* Buffer::read_some(reader), the reader's read doing r.
read_some(r) ==
    /\ Running
    /\ \/ /\ ~SliceInBounds(pos, len)
          /\ Panics("read_some", 0)
       \/ /\ SliceInBounds(pos, len)
          /\ ReadContract(r, len - pos)
          /\ LET bytes == Len(r.data) IN
             IF ~r.ok
             THEN /\ last' = Failed("read_some", r.err)
                  /\ UNCHANGED <<buf, pos, end, initialized, written>>
             ELSE IF SourceExhausted(bytes)
             THEN /\ last' = Call("read_some", 0, "Ok", 0, <<>>, <<>>, "zero", <<>>, 1)
                  /\ UNCHANGED <<buf, pos, end, initialized, written>>
             ELSE /\ end + bytes <= MaxEnd
                  /\ buf' = Store(pos, r.data)
                  /\ written' = written \cup (pos..(pos + bytes - 1))
                  /\ end' = end + bytes
                  /\ initialized' = max(pos + bytes, initialized)
                  /\ last' = Call("read_some", 0, "Ok", bytes, <<>>, <<>>,
                                  IF bytes = 0 THEN "zero" ELSE "some", r.data, 1)
                  /\ UNCHANGED pos
          /\ UNCHANGED overflow_checks

\* The reset left out: fill_buf keeps the cursor where it was.
fill_buf_pos_kept == pos

\* `self.pos = 0;`, the first statement of fill_buf.
fill_buf_pos == 0

\* Buffer::fill_buf(reader), the reader's read doing r.
fill_buf(r) ==
    /\ Running
    /\ ReadContract(r, len)
    /\ pos' = fill_buf_pos
    /\ LET bytes == Len(r.data) IN
       IF ~r.ok
       THEN /\ last' = Failed("fill_buf", r.err)
            /\ UNCHANGED <<buf, end, initialized, written>>
       ELSE IF SourceExhausted(bytes)
       THEN /\ last' = Call("fill_buf", 0, "Ok", 0, <<>>, <<>>, "zero", <<>>, 1)
            /\ UNCHANGED <<buf, end, initialized, written>>
       ELSE /\ buf' = Store(0, r.data)
            /\ written' = written \cup (0..(bytes - 1))
            /\ end' = bytes
            /\ initialized' = max(pos' + bytes, initialized)
            /\ last' = Call("fill_buf", 0, "Ok", bytes, <<>>, <<>>,
                            IF bytes = 0 THEN "zero" ELSE "some", r.data, 1)
    /\ UNCHANGED overflow_checks

Next ==
    \/ buffer
    \/ discard_buffer
    \/ \E amount \in Amounts : reposition(amount)
    \/ \E amount \in Amounts : try_reposition(amount)
    \/ \E amount \in Amounts : unposition(amount)
    \/ \E amount \in Amounts : try_unposition(amount)
    \/ \E amount \in Amounts : consume(amount)
    \/ \E r \in ReadOutcomes(MaxCap) : read_some(r)
    \/ \E r \in ReadOutcomes(MaxCap) : fill_buf(r)

Spec == Init /\ [][Next]_vars

\* ------------------------------------------------------------ round trip
\* The round trip of a transport worker: Buffer::new(8), then fill_buf from
\* a source holding four bytes, consume(2, f), reposition(10),
\* discard_buffer and read_some from the source, now exhausted.  Each call
\* follows the one before it.
RoundTripSources == [1..4 -> 1..4]

\* A read that succeeds and writes data.
ReadOk(data) == [ok |-> TRUE, err |-> 0, data |-> data]

InitRoundTrip ==
    /\ new(8)
    /\ overflow_checks \in BOOLEAN
    /\ written = {}
    /\ last = Plain("new", 0, "Unit")

NextRoundTrip ==
    \/ /\ last.op = "new"
       /\ \E d \in RoundTripSources : fill_buf(ReadOk(d))
    \/ /\ last.op = "fill_buf"
       /\ consume(2)
    \/ /\ last.op = "consume"
       /\ reposition(10)
    \/ /\ last.op = "reposition"
       /\ discard_buffer
    \/ /\ last.op = "discard_buffer"
       /\ read_some(ReadOk(<<>>))

SpecRoundTrip == InitRoundTrip /\ [][NextRoundTrip]_vars

\* ------------------------------------------------------- read_entire_file
\* The loop of the read_entire_file test: read_some; leave the loop when it
\* returned Ok(0) or failed; take buffer(); discard_buffer when
\* end() >= len(); again.  The source returns any chunk its destination
\* holds.
read_entire_file ==
    \/ /\ \/ last.op \in {"new", "discard_buffer"}
          \/ last.op = "buffer" /\ last.tag = "Slice" /\ ULt(end, len)
       /\ \E r \in ReadOutcomes(MaxCap) : read_some(r)
    \/ /\ last.op = "read_some" /\ last.tag = "Ok" /\ last.val # 0
       /\ buffer
    \/ /\ last.op = "buffer" /\ last.tag = "Slice" /\ ~ULt(end, len)
       /\ discard_buffer

SpecReadEntireFile == Init /\ [][read_entire_file]_vars

\* ---------------------------------------------------------------- claims
\* The offsets of the slice buffer() hands back; none when its index panics.
ViewOffsets == IF SliceInBounds(pos, end) THEN pos..(end - 1) ELSE {}

\* The greater of two small naturals.
Greater(a, b) == IF a >= b THEN a ELSE b

\* The last call was a load (read_some or fill_buf).
LastIsLoad == last.op \in {"read_some", "fill_buf"}

\* C1: after every call, 0 <= pos <= end <= initialized <= capacity.
\* (A negative pos stands for a value just below 2^64, above every end.)
C1_IndexChain ==
    /\ 0 <= pos
    /\ pos <= end
    /\ end <= initialized
    /\ initialized <= len

\* C2: in every state the slice buffer() returns, [pos, end), has no offset
\* at or above initialized.
C2_ViewBelowInitialized == \A i \in ViewOffsets : i < initialized

\* C3: in every state every offset of the slice buffer() returns was written
\* by an earlier load.
C3_ViewWasWritten == ViewOffsets \subseteq written

\* C4: a read_some that loads k > 0 bytes while unread data is present
\* (pos < end) leaves the view equal to the previous view followed by the k
\* new bytes.
C4_LoadAppends ==
    [][(/\ last'.op = "read_some"
        /\ last'.src = "some"
        /\ 0 <= pos /\ pos < end /\ end <= len)
       => (/\ 0 <= pos' /\ pos' <= end' /\ end' <= len
           /\ SubSeq(buf', pos' + 1, end') = SubSeq(buf, pos + 1, end) \o last'.data)]_vars

\* C5: try_reposition(n) returns Some and moves pos forward by exactly n if
\* pos + n <= end, and otherwise returns None and leaves pos alone.
C5_CheckedAdvance ==
    last.op = "try_reposition" =>
        IF last.arg >= 0 /\ last.pos >= 0 /\ last.pos + last.arg <= last.end
        THEN last.tag = "Some" /\ pos = last.pos + last.arg
        ELSE last.tag = "None" /\ pos = last.pos

\* C6: try_unposition(n) returns Some and moves pos back by exactly n if
\* n <= pos (n = pos included), and otherwise returns None and leaves pos
\* alone; it never panics.
C6_CheckedRetreat ==
    last.op = "try_unposition" =>
        IF ULe(last.arg, last.pos)
        THEN last.tag = "Some" /\ pos = last.pos - last.arg
        ELSE last.tag = "None" /\ pos = last.pos

\* C7: consume(n, f) with end - pos >= n calls f once with the first n bytes
\* of the view, moves pos forward by n, leaves end and initialized alone and
\* returns Some; otherwise it calls f never, changes no index and returns
\* None.
C7_ConsumeAllOrNothing ==
    last.op = "consume" =>
        /\ end = last.end
        /\ initialized = last.initialized
        /\ IF last.arg >= 0 /\ last.pos >= 0 /\ last.end - last.pos >= last.arg
           THEN /\ last.tag = "Some"
                /\ last.fcalls = <<SubSeq(buf, last.pos + 1, last.pos + last.arg)>>
                /\ pos = last.pos + last.arg
           ELSE /\ last.tag = "None"
                /\ last.fcalls = <<>>
                /\ pos = last.pos

\* C8 as stated: a load whose source returns 0 returns Ok(0) and leaves pos,
\* end and initialized as they were.
C8_ExhaustionKeepsAll ==
    (LastIsLoad /\ last.src = "zero") =>
        /\ last.tag = "Ok" /\ last.val = 0
        /\ pos = last.pos
        /\ end = last.end
        /\ initialized = last.initialized

\* C8 amended: a load whose source returns 0 returns Ok(0) and leaves end
\* and initialized as they were; read_some leaves pos as it was, fill_buf
\* leaves it at 0.
C8_ExhaustionKeepsWindowEnd ==
    (LastIsLoad /\ last.src = "zero") =>
        /\ last.tag = "Ok" /\ last.val = 0
        /\ end = last.end
        /\ initialized = last.initialized
        /\ last.op = "read_some" => pos = last.pos
        /\ last.op = "fill_buf" => pos = 0

\* C8 witness: fill_buf met an exhausted source with the cursor inside a
\* window of unread data.
C8_Witness ==
    /\ last.op = "fill_buf" /\ last.src = "zero"
    /\ last.pos > 0 /\ last.pos < last.end

\* C9: with a source producing k > 0 bytes, read_some keeps pos and sets
\* end = end + k and initialized = max(initialized, pos + k); fill_buf sets
\* pos = 0, end = k and initialized = max(initialized, k).
C9_AppendVsReset ==
    (LastIsLoad /\ last.src = "some") =>
        LET k == Len(last.data) IN
        /\ last.tag = "Ok" /\ last.val = k /\ k > 0
        /\ last.op = "read_some" =>
              /\ pos = last.pos
              /\ end = last.end + k
              /\ initialized = Greater(last.initialized, last.pos + k)
        /\ last.op = "fill_buf" =>
              /\ pos = 0
              /\ end = k
              /\ initialized = Greater(last.initialized, k)

\* C9 witness: read_some loaded one byte with pos = 1 and end = 2 and left
\* end = 3 (the spec's pos = 2, end = 5, k = 3 at the model's capacity).
C9_Witness ==
    /\ last.op = "read_some" /\ last.src = "some"
    /\ last.pos = 1 /\ last.end = 2 /\ Len(last.data) = 1
    /\ pos = 1 /\ end = 3

\* C10 as stated: a load whose source read fails leaves pos, end and
\* initialized as they were.
C10_FailureKeepsAll ==
    (LastIsLoad /\ last.src = "err") =>
        /\ pos = last.pos
        /\ end = last.end
        /\ initialized = last.initialized

\* C10 amended: a load whose source read fails returns the failure and
\* leaves end and initialized as they were; read_some leaves pos as it was,
\* fill_buf leaves it at 0.
C10_FailureKeepsWindowEnd ==
    (LastIsLoad /\ last.src = "err") =>
        /\ last.tag = "Err"
        /\ end = last.end
        /\ initialized = last.initialized
        /\ last.op = "read_some" => pos = last.pos
        /\ last.op = "fill_buf" => pos = 0

\* C10 witness: fill_buf's read failed with the cursor inside a window of
\* unread data.
C10_Witness ==
    /\ last.op = "fill_buf" /\ last.src = "err"
    /\ last.pos > 0 /\ last.pos < last.end

\* C11: no call aborts: every method returns a value, whatever the state and
\* the argument.
C11_NoAbort == last.tag # "Panic"

\* C12: from a state with pos <= end, reposition(n) sets pos to
\* min(pos + n, end), the sum taken without wrap-around, for every n of the
\* machine word: pos does not decrease, does not pass end, and end and
\* initialized stay as they were.
C12_ClampedAdvance ==
    (last.op = "reposition" /\ 0 <= last.pos /\ last.pos <= last.end) =>
        /\ last.tag = "Unit"
        /\ pos = IF last.arg >= 0 /\ last.pos + last.arg <= last.end
                 THEN last.pos + last.arg
                 ELSE last.end
        /\ last.pos <= pos /\ pos <= end
        /\ end = last.end
        /\ initialized = last.initialized

\* C13: no step lowers initialized, and no step changes the capacity.
C13_InitializedMonotone ==
    [][initialized' >= initialized /\ Len(buf') = Len(buf)]_vars

\* C13 witness: discard_buffer emptied a window and initialized is still
\* above 0.
C13_Witness ==
    /\ last.op = "discard_buffer"
    /\ last.end > 0
    /\ initialized > 0 /\ initialized = last.initialized

\* The highest offset of a non-empty set of offsets.
Highest(S) == CHOOSE i \in S : \A j \in S : j <= i

\* C14: in every state initialized is one past the highest offset a load has
\* written, and 0 when no load has written.
C14_InitializedIsHighWater ==
    initialized = IF written = {} THEN 0 ELSE 1 + Highest(written)

\* C14 witness: read_some wrote below the highest written offset, with the
\* cursor past the start of the buffer.
C14_Witness ==
    /\ last.op = "read_some" /\ last.src = "some"
    /\ written # {}
    /\ last.pos + Len(last.data) < initialized

\* C15: discard_buffer sets pos and end to 0 and leaves initialized, the
\* bytes and the capacity as they were; a second discard_buffer right after
\* the first changes nothing.
C15_DiscardIdempotent ==
    [][last'.op = "discard_buffer" =>
          /\ pos' = 0 /\ end' = 0
          /\ initialized' = initialized
          /\ buf' = buf
          /\ last.op = "discard_buffer" =>
                <<buf', pos', end', initialized'>> = <<buf, pos, end, initialized>>]_vars

\* C15 witness: discard_buffer ran on a buffer already discarded (pos = 0,
\* end = 0, bytes written earlier).
C15_Witness ==
    /\ last.op = "discard_buffer"
    /\ last.pos = 0 /\ last.end = 0
    /\ pos = 0 /\ end = 0 /\ initialized > 0

\* C16: every call of read_some and fill_buf invokes the source's read
\* exactly once, and when that read fails the call returns that same error,
\* never the zero-byte success.
C16_ReadOnceAndPropagate ==
    LastIsLoad =>
        /\ last.reads = 1
        /\ last.src = "err" => (last.tag = "Err" /\ last.val = last.err)
        /\ last.src = "zero" => (last.tag = "Ok" /\ last.val = 0)

\* C17: in the round trip with capacity 8 and a source of four bytes, fill_buf
\* leaves end = 4 and pos = 0; consume(2, f) hands f the first two bytes and
\* leaves pos = 2; reposition(10) leaves pos = 4; discard_buffer leaves
\* pos = 0 and end = 0 with initialized still 4; the last read_some returns 0
\* and changes no index.  With the source [1, 2, 3, 4], f receives [1, 2].
C17_RoundTrip ==
    /\ last.op = "fill_buf" =>
          /\ last.tag = "Ok" /\ last.val = 4
          /\ pos = 0 /\ end = 4 /\ initialized = 4
          /\ SubSeq(buf, 1, 4) = last.data
    /\ last.op = "consume" =>
          /\ last.tag = "Some"
          /\ last.fcalls = <<SubSeq(buf, 1, 2)>>
          /\ SubSeq(buf, 1, 4) = <<1, 2, 3, 4>> => last.fcalls = << <<1, 2>> >>
          /\ pos = 2 /\ end = 4
    /\ last.op = "reposition" => (pos = 4 /\ end = 4)
    /\ last.op = "discard_buffer" => (pos = 0 /\ end = 0 /\ initialized = 4)
    /\ last.op = "read_some" =>
          /\ last.tag = "Ok" /\ last.val = 0
          /\ pos = 0 /\ end = 0 /\ initialized = 4

\* C17 witness: the round trip over the source [1, 2, 3, 4] has run to its
\* last call, the read_some that met the exhausted source.
C17_Witness ==
    /\ last.op = "read_some" /\ last.src = "zero"
    /\ len = 8
    /\ SubSeq(buf, 1, 4) = <<1, 2, 3, 4>>

\* C18: in the read_entire_file loop, whatever chunks the source returns,
\* end <= capacity holds after every read_some that loaded bytes and the
\* buffer() call that follows returns its slice.
C18_LoopViewInBounds ==
    /\ (last.op = "read_some" /\ last.tag = "Ok" /\ last.val # 0) => end <= len
    /\ last.op = "buffer" => last.tag = "Slice"

\* C19: a step of any method other than try_reposition and try_unposition,
\* taken with pos <= end, ends with pos <= end, whatever the argument and
\* whatever the source did.
C19_OthersKeepWindow ==
    [][(/\ 0 <= pos /\ pos <= end
        /\ last'.op \notin {"try_reposition", "try_unposition"})
       => (0 <= pos' /\ pos' <= end')]_vars

\* C19 witness: reposition was asked to go past end from inside the window
\* and stopped at end.
C19_Witness ==
    /\ last.op = "reposition" /\ last.tag = "Unit"
    /\ 0 <= last.pos /\ last.pos < last.end
    /\ last.arg > last.end - last.pos
    /\ pos = end

\* C20: for a source producing k > 0 bytes, fill_buf and discard_buffer
\* followed by read_some end alike.  discard_buffer keeps the bytes and
\* initialized; from there read_some, like fill_buf from any state, returns
\* k and leaves pos = 0, end = k, initialized = max(initialized, k), the k
\* bytes at the start of the buffer and the view equal to them.
C20_RefillIsDiscardThenLoad ==
    [][/\ last'.op = "discard_buffer" => (buf' = buf /\ initialized' = initialized)
       /\ LET k == Len(last'.data) IN
          (/\ last'.src = "some"
           /\ \/ last'.op = "fill_buf"
              \/ last'.op = "read_some" /\ last.op = "discard_buffer")
          => /\ last'.tag = "Ok" /\ last'.val = k
             /\ pos' = 0
             /\ end' = k
             /\ initialized' = Greater(initialized, k)
             /\ buf' = [i \in 1..Len(buf) |-> IF i <= k THEN last'.data[i] ELSE buf[i]]
             /\ SubSeq(buf', pos' + 1, end') = last'.data]_vars

\* C20 witness: read_some loaded bytes into a discarded buffer that holds
\* older bytes beyond them.
C20_Witness ==
    /\ last.op = "read_some" /\ last.src = "some"
    /\ last.pos = 0 /\ last.end = 0
    /\ last.initialized > Len(last.data)
    /\ end = Len(last.data)

====
